---- MODULE Spec2Model ----
(***************************************************************************)
(* A model of hamster-cli.py (Project Hamster's command line front end):   *)
(*   - word_wrap, the primitive word wrapper            (SpecWrap)         *)
(*   - list / search / export range resolution          (SpecRange)        *)
(*   - _list, the report printer                        (SpecList)         *)
(*   - the __main__ dispatch and the Hamster window                        *)
(*     server (gtk.Application)                         (SpecApp)          *)
(* Strings whose contents matter are sequences of one-character strings.   *)
(***************************************************************************)
EXTENDS Integers, Sequences, FiniteSets, TLC

VARIABLES
    \* ---- word_wrap ----
    line,       \* the text given to word_wrap
    max_len,    \* the width given to word_wrap
    lines,      \* the returned list of lines
    wrap_pc,    \* "call" before word_wrap has run, "return" after
    \* ---- the wall clock ----
    now,        \* seconds since 00:00:00 of day 0
    \* ---- list / search / export ----
    cmd,        \* the command run: "list", "search" or "export" ("" before)
    args,       \* its action_args
    parse_read, \* the clock reading dt.Range.parse took as its reference
    parsed,     \* what dt.Range.parse returned
    today_read, \* the clock reading of dt.date.today(), None if never taken
    raised,     \* the exception that ended the command, None if it returned
    queries,    \* the get_facts calls received by the fact store
    report,     \* the report produced: None, Some("listing"), Some("export")
    range_pc,   \* "start" before the command has run, "exit" after
    \* ---- _list ----
    facts,      \* the list storage.get_facts returned
    print_with_date,
    widths,     \* column -> width
    by_cat,     \* the dict category -> duration, in insertion order
    idx,        \* the position of the running for loop in facts
    rows,       \* per printed fact: what each pass read and formatted
    cats,       \* the sorted (category, duration) pairs of the summary
    total_duration,
    out,        \* the lines printed so far
    ticks,      \* how often the clock has advanced during the report
    list_pc,    \* the position in _list
    \* ---- the Hamster window server and the __main__ dispatch ----
    overview_controller,  \* None or the Overview controller
    prefs_controller,     \* None or the PreferencesEditor controller
    windows,    \* get_windows(): the application's windows
    created,    \* how many controllers of each class were ever constructed
    presented,  \* the window presented last, None before the first
    inbox,      \* activations sent to the primary instance, not yet handled
    invoked,    \* the action of the latest command line invocation
    outcome,    \* the branch of the dispatch that invocation took
    presented_since,  \* the windows presented since that invocation
    last_event  \* the latest message handled, or what else happened last

wrapVars == <<line, max_len, lines, wrap_pc>>
rangeVars == <<cmd, args, parse_read, parsed, today_read, raised, queries,
               report, range_pc>>

listVars == <<facts, print_with_date, widths, by_cat, idx, rows, cats,
              total_duration, out, ticks, list_pc>>

appVars == <<overview_controller, prefs_controller, windows, created, presented,
             inbox, invoked, outcome, presented_since, last_event>>

vars == <<wrapVars, now, rangeVars, listVars, appVars>>

(***************************************************************************)
(* Bounds                                                                  *)
(***************************************************************************)
MaxTextLen == 8
MaxWidth == 5
MaxDay == 2
MaxArgs == 3
MaxFacts == 3
MaxTicks == 2
MaxInbox == 4

\* Python's None and a present value
None == <<>>
Some(v) == <<v>>
\* x or d, for an x that is None or a truthy object
Or(x, d) == IF x = None THEN d ELSE x[1]

(***************************************************************************)
(* Python string helpers                                                   *)
(***************************************************************************)
Whitespace == {" "}
Alphabet == {"a", "b"} \cup Whitespace

Texts == UNION {[1..n -> Alphabet] : n \in 0..MaxTextLen}

\* str.split() with no argument: the maximal runs of non-whitespace
RECURSIVE SplitFrom(_, _, _, _)
SplitFrom(s, i, cur, acc) ==
    IF i > Len(s)
    THEN IF cur = <<>> THEN acc ELSE Append(acc, cur)
    ELSE IF s[i] \in Whitespace
         THEN SplitFrom(s, i + 1, <<>>, IF cur = <<>> THEN acc ELSE Append(acc, cur))
         ELSE SplitFrom(s, i + 1, Append(cur, s[i]), acc)

split(s) == SplitFrom(s, 1, <<>>, <<>>)

\* str.strip(): leading and trailing whitespace removed
RECURSIVE lstrip(_)
lstrip(s) ==
    IF s # <<>> /\ Head(s) \in Whitespace THEN lstrip(Tail(s)) ELSE s

RECURSIVE rstrip(_)
rstrip(s) ==
    IF s # <<>> /\ s[Len(s)] \in Whitespace
    THEN rstrip(SubSeq(s, 1, Len(s) - 1))
    ELSE s

strip(s) == rstrip(lstrip(s))

\* "%s %s" % (a, b)
Fmt2(a, b) == a \o <<" ">> \o b

\* sep.join(parts)
RECURSIVE join(_, _)
join(sep, parts) ==
    IF parts = <<>> THEN <<>>
    ELSE IF Len(parts) = 1 THEN parts[1]
    ELSE parts[1] \o sep \o join(sep, Tail(parts))

(***************************************************************************)
(* word_wrap(line, max_len)                                                *)
(***************************************************************************)
FitsOrEqual(cand, width) == Len(cand) <= width

\* the test of line 51
Fits(cand, width) == Len(cand) < width

\* lines 54-55: the current line is appended when it is not empty
FlushLine(acc, cur_line) ==
    IF cur_line # <<>> THEN Append(acc, cur_line) ELSE acc

FinalFlushDropped(acc, cur_line) == acc

\* lines 57-58: the last line is appended when it is not empty
FinalFlush(acc, cur_line) ==
    IF cur_line # <<>> THEN Append(acc, cur_line) ELSE acc

\* the loop of lines 50-56, from word i on
RECURSIVE WrapLoop(_, _, _, _, _)
WrapLoop(words, i, cur_line, acc, width) ==
    IF i > Len(words)
    THEN [cur_line |-> cur_line, lines |-> acc]
    ELSE LET word == words[i]
             cand == Fmt2(cur_line, word)
         IN IF Fits(cand, width)
            THEN WrapLoop(words, i + 1, strip(cand), acc, width)
            ELSE WrapLoop(words, i + 1, word, FlushLine(acc, cur_line), width)

word_wrap(text, width) ==
    LET r == WrapLoop(split(text), 1, <<>>, <<>>, width)
    IN FinalFlush(r.lines, r.cur_line)

InitWrapVars ==
    /\ line \in Texts
    /\ max_len \in 0..MaxWidth
    /\ lines = <<>>
    /\ wrap_pc = "call"

IdleWrap ==
    /\ line = <<>>
    /\ max_len = 0
    /\ lines = <<>>
    /\ wrap_pc = "idle"

WrapCall ==
    /\ wrap_pc = "call"
    /\ lines' = word_wrap(line, max_len)
    /\ wrap_pc' = "return"
    /\ UNCHANGED <<line, max_len, now, rangeVars, listVars, appVars>>

(***************************************************************************)
(* Time: instants are seconds since 00:00:00 of day 0                      *)
(***************************************************************************)
SecondsPerDay == 24 * 60 * 60

\* datetime.date()
date(t) == t \div SecondsPerDay

\* dt.datetime.combine(day, dt.time()): the day at 00:00:00
combine_midnight(day) == day * SecondsPerDay

\* datetime.replace(hour=h, minute=m, second=s)
replace_time(t, h, m, s) == combine_midnight(date(t)) + h * 3600 + m * 60 + s

(***************************************************************************)
(* dt.Range.parse, as the specification describes it (hamster.lib.datetime *)
(* is not part of the sources at hand).  One element of the argument       *)
(* sequence stands for one date/time expression:                           *)
(*   date      YYYY-MM-DD           datetime  YYYY-MM-DD hh:mm             *)
(*   rel       -N (minutes ago)     word      anything else                *)
(***************************************************************************)
DayMinutes == {0, 600}
RelMinutes == {20, 1500}

Exprs ==
    [kind : {"date"}, day : 1..MaxDay, min : {0}]
    \cup [kind : {"datetime"}, day : 1..MaxDay, min : DayMinutes]
    \cup [kind : {"rel"}, day : {0}, min : RelMinutes]
    \cup [kind : {"word"}, day : {0}, min : {0}]

ArgLists == UNION {[1..n -> Exprs] : n \in 0..MaxArgs}

\* the expression at position i is not one the grammar allows there
Malformed(exprs, i) ==
    \/ i > 2
    \/ exprs[i].kind = "word"
    \/ i = 2 /\ exprs[i].kind = "rel"

HasMalformed(exprs) == \E i \in 1..Len(exprs) : Malformed(exprs, i)

FirstMalformed(exprs) ==
    exprs[CHOOSE i \in 1..Len(exprs) :
            Malformed(exprs, i) /\ \A j \in 1..(i - 1) : ~Malformed(exprs, j)]

ParseStart(e, ref) ==
    IF e.kind = "rel" THEN ref - e.min * 60
    ELSE combine_midnight(e.day) + e.min * 60

ParseEnd(e) ==
    IF e.kind = "date" THEN combine_midnight(e.day) + 23 * 3600 + 59 * 60 + 59
    ELSE combine_midnight(e.day) + e.min * 60

Range_parse(exprs, ref) ==
    IF HasMalformed(exprs)
    THEN [error |-> Some([type |-> "ParseError", token |-> FirstMalformed(exprs)]),
          start |-> None, end |-> None]
    ELSE [error |-> None,
          start |-> IF Len(exprs) >= 1 THEN Some(ParseStart(exprs[1], ref)) ELSE None,
          end |-> IF Len(exprs) >= 2 THEN Some(ParseEnd(exprs[2])) ELSE None]

(***************************************************************************)
(* HamsterCli.list, search, export                                         *)
(***************************************************************************)
\* args[1:]
Rest(a) == IF a = <<>> THEN <<>> ELSE Tail(a)

\* the text handed to dt.Range.parse: all of list's arguments, and the
\* arguments after the first (the search term, the format) otherwise
RangeArgs(c, a) == IF c = "list" THEN a ELSE Rest(a)

\* the search term given to get_facts
SearchArg(c, a) ==
    IF c = "search" /\ a # <<>> THEN Some(a[1]) ELSE None

ResolveRangeEndOfToday(p, today) ==
    LET start_time == Or(p.start, combine_midnight(date(today)))
        end_time == Or(p.end, replace_time(today, 23, 59, 59))
    IN [start_time |-> start_time, end_time |-> end_time]

\* start_time = start_time or dt.datetime.combine(dt.date.today(), dt.time())
\* end_time = end_time or start_time.replace(hour=23, minute=59, second=59)
ResolveRange(p, today) ==
    LET start_time == Or(p.start, combine_midnight(date(today)))
        end_time == Or(p.end, replace_time(start_time, 23, 59, 59))
    IN [start_time |-> start_time, end_time |-> end_time]

AfterParseSwallowed(p, today, srch) ==
    LET r == ResolveRange([start |-> None, end |-> None], today)
    IN [raised |-> None,
        today_read |-> Some(today),
        query |-> Some([start_time |-> r.start_time, end_time |-> r.end_time,
                        search |-> srch])]

\* what follows the call of dt.Range.parse: its exception leaves the method
\* at once; otherwise the range is resolved and get_facts is called
AfterParse(p, today, srch) ==
    IF p.error # None
    THEN [raised |-> p.error, today_read |-> None, query |-> None]
    ELSE LET r == ResolveRange(p, today)
         IN [raised |-> None,
             today_read |-> IF p.start = None THEN Some(today) ELSE None,
             query |-> Some([start_time |-> r.start_time, end_time |-> r.end_time,
                             search |-> srch])]

ClockStarts ==
    {2 * SecondsPerDay - 1, 2 * SecondsPerDay + 300, 2 * SecondsPerDay + 43200}
Delays == {0, 1}

\* one run of command c with arguments a; the clock is read by the parser
\* and, d seconds later, by date.today()
RunRangeCommand(c, a, d, kind) ==
    LET t1 == now
        t2 == t1 + d
        p == Range_parse(RangeArgs(c, a), t1)
        o == AfterParse(p, t2, SearchArg(c, a))
    IN /\ cmd' = c
       /\ args' = a
       /\ parse_read' = t1
       /\ parsed' = p
       /\ today_read' = o.today_read
       /\ raised' = o.raised
       /\ queries' = IF o.query = None THEN queries ELSE Append(queries, o.query[1])
       /\ report' = IF o.query = None THEN None ELSE Some(kind)
       /\ now' = IF o.raised = None THEN t2 ELSE t1
       /\ range_pc' = "exit"
       /\ UNCHANGED <<wrapVars, listVars, appVars>>

list ==
    /\ range_pc = "start"
    /\ \E a \in ArgLists, d \in Delays :
           RunRangeCommand("list", a, d, "listing")

search ==
    /\ range_pc = "start"
    /\ \E a \in ArgLists, d \in Delays :
           RunRangeCommand("search", a, d, "listing")

export ==
    /\ range_pc = "start"
    /\ \E a \in ArgLists, d \in Delays :
           RunRangeCommand("export", a, d, "export")

InitRangeVars ==
    /\ cmd = ""
    /\ args = <<>>
    /\ parse_read = 0
    /\ parsed = [error |-> None, start |-> None, end |-> None]
    /\ today_read = None
    /\ raised = None
    /\ queries = <<>>
    /\ report = None
    /\ range_pc = "start"

IdleRange ==
    /\ cmd = ""
    /\ args = <<>>
    /\ parse_read = 0
    /\ parsed = [error |-> None, start |-> None, end |-> None]
    /\ today_read = None
    /\ raised = None
    /\ queries = <<>>
    /\ report = None
    /\ range_pc = "idle"

(***************************************************************************)
(* Formatting of numbers, timestamps and durations                         *)
(***************************************************************************)
DigitChars == <<"0", "1", "2", "3", "4", "5", "6", "7", "8", "9">>

\* "%d" % n, n >= 0
RECURSIVE Digits(_)
Digits(n) ==
    IF n < 10 THEN <<DigitChars[n + 1]>>
    ELSE Digits(n \div 10) \o <<DigitChars[(n % 10) + 1]>>

\* "%0<w>d" % n
RECURSIVE ZeroPad(_, _)
ZeroPad(s, w) == IF Len(s) >= w THEN s ELSE ZeroPad(<<"0">> \o s, w)

\* the proleptic Gregorian date of day z, day 0 being 1970-01-01
CivilFromDays(z) ==
    LET z1 == z + 719468
        era == z1 \div 146097
        doe == z1 - era * 146097
        yoe == (doe - doe \div 1460 + doe \div 36524 - doe \div 146096) \div 365
        doy == doe - (365 * yoe + yoe \div 4 - yoe \div 100)
        mp == (5 * doy + 2) \div 153
        d == doy - (153 * mp + 2) \div 5 + 1
        m == IF mp < 10 THEN mp + 3 ELSE mp - 9
        y == yoe + era * 400 + (IF m <= 2 THEN 1 ELSE 0)
    IN [year |-> y, month |-> m, day |-> d]

\* datetime.strftime('%Y-%m-%d %H:%M') and datetime.strftime('%H:%M')
strftime(t, with_date) ==
    LET c == CivilFromDays(date(t))
        sod == t % SecondsPerDay
        hm == ZeroPad(Digits(sod \div 3600), 2) \o <<":">>
              \o ZeroPad(Digits((sod % 3600) \div 60), 2)
    IN IF with_date
       THEN ZeroPad(Digits(c.year), 4) \o <<"-">> \o ZeroPad(Digits(c.month), 2)
            \o <<"-">> \o ZeroPad(Digits(c.day), 2) \o <<" ">> \o hm
       ELSE hm

\* timedelta.format(), the verbose form of the specification: "1h05", "0h00"
\* (hamster.lib.datetime is not part of the sources at hand)
format_duration(d) ==
    Digits(d \div 3600) \o <<"h">> \o ZeroPad(Digits((d % 3600) \div 60), 2)

\* Fact.delta: end_time - start_time, or the time elapsed so far
\* (hamster.lib.fact is not part of the sources at hand)
delta(fact, clock) ==
    IF fact.end_time # None THEN fact.end_time[1] - fact.start_time
    ELSE clock - fact.start_time

(***************************************************************************)
(* fact_dict(fact_data, with_date), read at instant clock                  *)
(***************************************************************************)
\* ' '.join('#%s' % tag for tag in tags)
TagText(tags) == join(<<" ">>, [k \in 1..Len(tags) |-> <<"#">> \o tags[k]])

fact_dict(fact_data, with_date, clock) ==
    [start |-> strftime(fact_data.start_time, with_date),
     end |-> IF fact_data.end_time # None
             THEN strftime(fact_data.end_time[1], with_date)
             ELSE <<>>,
     duration |-> format_duration(delta(fact_data, clock)),
     activity |-> fact_data.activity,
     category |-> fact_data.category,
     tags |-> IF fact_data.tags # <<>> THEN TagText(fact_data.tags) ELSE <<>>,
     description |-> fact_data.description]

(***************************************************************************)
(* HamsterCli._list                                                        *)
(***************************************************************************)
cols == <<"start", "end", "duration", "activity", "category">>
Columns == {cols[k] : k \in 1..Len(cols)}

headers ==
    [activity |-> <<"A", "c", "t", "i", "v", "i", "t", "y">>,
     category |-> <<"C", "a", "t", "e", "g", "o", "r", "y">>,
     tags |-> <<"T", "a", "g", "s">>,
     description |-> <<"D", "e", "s", "c", "r", "i", "p", "t", "i", "o", "n">>,
     start |-> <<"S", "t", "a", "r", "t">>,
     end |-> <<"E", "n", "d">>,
     duration |-> <<"D", "u", "r", "a", "t", "i", "o", "n">>]

Unsorted == <<"U", "n", "s", "o", "r", "t", "e", "d">>

Max2(a, b) == IF a >= b THEN a ELSE b
Min2(a, b) == IF a <= b THEN a ELSE b

\* c * n
RECURSIVE Repeat(_, _)
Repeat(c, n) == IF n <= 0 THEN <<>> ELSE <<c>> \o Repeat(c, n - 1)

\* "{: <w}".format(s)
ljust(s, w) == s \o Repeat(" ", w - Len(s))

\* fact_line.format(**d), fact_line being the padded columns joined by " | "
fact_line_format(d, w) ==
    join(<<" ", "|", " ">>, [k \in 1..Len(cols) |-> ljust(d[cols[k]], w[cols[k]])])

RECURSIVE SumWidths(_, _)
SumWidths(w, k) == IF k = 0 THEN 0 ELSE w[cols[k]] + 3 + SumWidths(w, k - 1)

\* row_width = sum(val + 3 for val in widths.values())
row_width(w) == SumWidths(w, Len(cols))

\* "-" * min(row_width, 80)
Separator(w) == Repeat("-", Min2(row_width(w), 80))

\* widths[col] = max(widths[col], len(fact[col])) for every column
Widened(w, fact) == [c \in Columns |-> Max2(w[c], Len(fact[c]))]

\* cat = fact.category or _("Unsorted")
CategoryLabel(fact) == IF fact.category # <<>> THEN fact.category ELSE Unsorted

\* by_cat.setdefault(cat, dt.timedelta(0)); by_cat[cat] += d
AddToCategory(d_by_cat, cat, d) ==
    IF \E k \in 1..Len(d_by_cat) : d_by_cat[k].cat = cat
    THEN [k \in 1..Len(d_by_cat) |->
            IF d_by_cat[k].cat = cat
            THEN [cat |-> cat, duration |-> d_by_cat[k].duration + d]
            ELSE d_by_cat[k]]
    ELSE Append(d_by_cat, [cat |-> cat, duration |-> d])

\* one step of a stable descending sort: item goes after every entry whose
\* duration is at least its own
InsertDesc(sorted, item) ==
    LET n == Cardinality({k \in 1..Len(sorted) : sorted[k].duration >= item.duration})
    IN SubSeq(sorted, 1, n) \o <<item>> \o SubSeq(sorted, n + 1, Len(sorted))

RECURSIVE SortedDescFrom(_, _, _)
SortedDescFrom(items, k, acc) ==
    IF k > Len(items) THEN acc
    ELSE SortedDescFrom(items, k + 1, InsertDesc(acc, items[k]))

Reversed(s) == [k \in 1..Len(s) |-> s[Len(s) + 1 - k]]

InsertAsc(sorted, item) ==
    LET n == Cardinality({k \in 1..Len(sorted) : sorted[k].duration <= item.duration})
    IN SubSeq(sorted, 1, n) \o <<item>> \o SubSeq(sorted, n + 1, Len(sorted))

RECURSIVE SortedAscFrom(_, _, _)
SortedAscFrom(items, k, acc) ==
    IF k > Len(items) THEN acc
    ELSE SortedAscFrom(items, k + 1, InsertAsc(acc, items[k]))

SortedThenReversed(items) == Reversed(SortedAscFrom(items, 1, <<>>))

\* sorted(by_cat.items(), key=lambda x: x[1], reverse=True): stable, so
\* entries of equal duration keep the dict's (insertion) order
SortedByDuration(items) == SortedDescFrom(items, 1, <<>>)

RECURSIVE SumDurations(_, _)
SumDurations(items, k) ==
    IF k = 0 THEN 0 ELSE items[k].duration + SumDurations(items, k - 1)

\* "{}: {}".format(cat, duration.format())
CatText(item) == item.cat \o <<":", " ">> \o format_duration(item.duration)

\* "    {}".format(line) for each wrapped line of text
Indented(text) ==
    LET w == word_wrap(text, 76)
    IN [k \in 1..Len(w) |-> <<" ", " ", " ", " ">> \o w[k]]

\* ---- what the fact store may hold ----
Noon == 15553 * SecondsPerDay + 12 * 3600

Closed(start, minutes, activity, category, description) ==
    [start_time |-> start, end_time |-> Some(start + minutes * 60),
     activity |-> activity, category |-> category, tags |-> <<>>,
     description |-> description]

Ongoing(start, activity, category, tags) ==
    [start_time |-> start, end_time |-> None,
     activity |-> activity, category |-> category, tags |-> tags,
     description |-> <<>>]

FactPool ==
    {Closed(Noon - 600 * 60, 90, <<"c", "o", "d", "e">>, <<"W", "o", "r", "k">>, <<>>),
     Closed(Noon - 500 * 60, 30, <<"p", "r", "o", "g", "r", "a", "m", "m", "i", "n", "g">>, <<"W", "o", "r", "k">>, <<>>),
     Closed(Noon - 400 * 60, 30, <<"c", "h", "e", "s", "s">>, <<"P", "l", "a", "y">>, <<"a", " ", " ", "n", "o", "t", "e">>),
     Closed(Noon - 300 * 60, 30, <<"n", "a", "p">>, <<>>, <<>>),
     Closed(Noon - 200 * 60, 30, <<"n", "a", "p">>, <<>>, <<>>),
     Ongoing(Noon - 59 * 60, <<"c", "o", "d", "e">>, <<"W", "o", "r", "k">>, <<<<"u", "r", "g", "e", "n", "t">>>>),
     Ongoing(Noon - (99999 * 3600 + 59 * 60), <<"n", "a", "p">>, <<>>, <<>>)}

\* get_facts returns the facts in ascending order of start time; at most
\* one activity is being tracked
FactLists ==
    {fs \in UNION {[1..n -> FactPool] : n \in 0..MaxFacts} :
        /\ \A k \in 1..(Len(fs) - 1) : fs[k].start_time < fs[k + 1].start_time
        /\ Cardinality({k \in 1..Len(fs) : fs[k].end_time = None}) <= 1}

\* the (start_time, end_time) list and search may pass on
Ranges ==
    {[start_time |-> combine_midnight(15553), end_time |-> combine_midnight(15553) + 86399],
     [start_time |-> combine_midnight(15550), end_time |-> combine_midnight(15553) + 86399]}

InitListVars ==
    /\ facts = <<>>
    /\ print_with_date = FALSE
    /\ widths = [c \in Columns |-> 0]
    /\ by_cat = <<>>
    /\ idx = 0
    /\ rows = <<>>
    /\ cats = <<>>
    /\ total_duration = 0
    /\ out = <<>>
    /\ ticks = 0
    /\ list_pc = "call"

IdleList ==
    /\ facts = <<>>
    /\ print_with_date = FALSE
    /\ widths = [c \in Columns |-> 0]
    /\ by_cat = <<>>
    /\ idx = 0
    /\ rows = <<>>
    /\ cats = <<>>
    /\ total_duration = 0
    /\ out = <<>>
    /\ ticks = 0
    /\ list_pc = "idle"

\* lines 314-332: the facts are fetched, the widths start as the header
\* label lengths
ListFetch ==
    /\ list_pc = "call"
    /\ \E fs \in FactLists, r \in Ranges :
          /\ facts' = fs
          /\ print_with_date' = (date(r.start_time) # date(r.end_time))
    /\ widths' = [c \in Columns |-> Len(headers[c])]
    /\ idx' = 1
    /\ rows' = [k \in 1..Len(facts') |->
                  [width_duration |-> <<>>, delta |-> 0, pretty |-> <<>>]]
    /\ list_pc' = "widths"
    /\ UNCHANGED <<by_cat, cats, total_duration, out, ticks>>
    /\ UNCHANGED <<wrapVars, now, rangeVars, appVars>>

\* lines 333-336, one fact of the width pass
ListWidth ==
    /\ list_pc = "widths"
    /\ idx <= Len(facts)
    /\ LET fact == fact_dict(facts[idx], print_with_date, now)
       IN /\ widths' = Widened(widths, fact)
          /\ rows' = [rows EXCEPT ![idx].width_duration = fact.duration]
    /\ idx' = idx + 1
    /\ UNCHANGED <<facts, print_with_date, by_cat, cats, total_duration, out,
                   ticks, list_pc>>
    /\ UNCHANGED <<wrapVars, now, rangeVars, appVars>>

\* lines 338-347: the header and the first separator
ListHeader ==
    /\ list_pc = "widths"
    /\ idx > Len(facts)
    /\ out' = <<<<>>, fact_line_format(headers, widths), Separator(widths)>>
    /\ by_cat' = <<>>
    /\ idx' = 1
    /\ list_pc' = "rows"
    /\ UNCHANGED <<facts, print_with_date, widths, rows, cats, total_duration, ticks>>
    /\ UNCHANGED <<wrapVars, now, rangeVars, appVars>>

\* lines 349-351: the fact's delta is added to its category
ListAccumulate ==
    /\ list_pc = "rows"
    /\ idx <= Len(facts)
    /\ LET d == delta(facts[idx], now)
       IN /\ by_cat' = AddToCategory(by_cat, CategoryLabel(facts[idx]), d)
          /\ rows' = [rows EXCEPT ![idx].delta = d]
    /\ list_pc' = "row"
    /\ UNCHANGED <<facts, print_with_date, widths, idx, cats, total_duration,
                   out, ticks>>
    /\ UNCHANGED <<wrapVars, now, rangeVars, appVars>>

\* lines 353-362: the row, then its description and its tags
ListRow ==
    /\ list_pc = "row"
    /\ LET pretty_fact == fact_dict(facts[idx], print_with_date, now)
       IN /\ out' = out \o <<fact_line_format(pretty_fact, widths)>>
                    \o (IF pretty_fact.description # <<>>
                        THEN Indented(pretty_fact.description) ELSE <<>>)
                    \o (IF pretty_fact.tags # <<>>
                        THEN Indented(pretty_fact.tags) ELSE <<>>)
          /\ rows' = [rows EXCEPT ![idx].pretty = pretty_fact]
    /\ idx' = idx + 1
    /\ list_pc' = "rows"
    /\ UNCHANGED <<facts, print_with_date, widths, by_cat, cats, total_duration,
                   ticks>>
    /\ UNCHANGED <<wrapVars, now, rangeVars, appVars>>

\* lines 364-376: the second separator, the summary and the total
ListSummary ==
    /\ list_pc = "rows"
    /\ idx > Len(facts)
    /\ cats' = SortedByDuration(by_cat)
    /\ total_duration' = SumDurations(cats', Len(cats'))
    /\ out' = out \o <<Separator(widths)>>
              \o word_wrap(join(<<",", " ">>,
                                [k \in 1..Len(cats') |-> CatText(cats'[k])]), 80)
              \o <<<<"T", "o", "t", "a", "l", ":", " ">> \o <<" ">> \o format_duration(total_duration')>>
              \o <<<<>>>>
    /\ list_pc' = "done"
    /\ UNCHANGED <<facts, print_with_date, widths, by_cat, idx, rows, ticks>>
    /\ UNCHANGED <<wrapVars, now, rangeVars, appVars>>

\* a minute passes while the report is being produced
Tick ==
    /\ list_pc \in {"widths", "rows", "row"}
    /\ ticks < MaxTicks
    /\ now' = now + 60
    /\ ticks' = ticks + 1
    /\ UNCHANGED <<facts, print_with_date, widths, by_cat, idx, rows, cats,
                   total_duration, out, list_pc>>
    /\ UNCHANGED <<wrapVars, rangeVars, appVars>>

(***************************************************************************)
(* class Hamster(gtk.Application), the window server                       *)
(***************************************************************************)
\* add_actions: the actions the application registers
RegisteredActions == {"overview", "prefs", "quit"}

\* the server's own state, as a record
ServerState ==
    [overview_controller |-> overview_controller,
     prefs_controller |-> prefs_controller,
     windows |-> windows,
     created |-> created,
     presented |-> presented,
     shown |-> {}]

\* Overview() and PreferencesEditor(): a new controller owning a new window
NewController(class, st) == [class |-> class, id |-> st.created[class] + 1]

\* controller.window
WindowOf(controller) == [of |-> controller.class, id |-> controller.id]

InWindows(window, wins) == \E k \in 1..Len(wins) : wins[k] = window

\* lines 155-156: if window not in self.get_windows(): self.add_window(window)
AddedIfMissing(window, wins) ==
    IF ~InWindows(window, wins) THEN Append(wins, window) ELSE wins

ControllerAlwaysNew(current, class, st) == NewController(class, st)

\* lines 144-147 and 149-152: the controller is constructed on first use
ControllerFor(current, class, st) ==
    IF current = None THEN NewController(class, st) ELSE current[1]

\* line 158: controller.present()
Presented(controller, st) == Some(WindowOf(controller))

\* Hamster._open_window(name), name being "overview" or "prefs"
open_window(name, st) ==
    LET class == IF name = "overview" THEN "Overview" ELSE "PreferencesEditor"
        current == IF name = "overview" THEN st.overview_controller
                   ELSE st.prefs_controller
        controller == ControllerFor(current, class, st)
        isNew == controller.id > st.created[class]
    IN [overview_controller |->
            IF name = "overview" THEN Some(controller) ELSE st.overview_controller,
        prefs_controller |->
            IF name = "prefs" THEN Some(controller) ELSE st.prefs_controller,
        windows |-> AddedIfMissing(WindowOf(controller), st.windows),
        created |-> IF isNew THEN [st.created EXCEPT ![class] = @ + 1] ELSE st.created,
        presented |-> Presented(controller, st),
        shown |-> st.shown \cup {name}]

\* activate_action(name): the handler connected to the action runs; a name
\* that was never registered activates nothing.  on_activate_overview and
\* on_activate_prefs call _open_window(action.get_name()).
activate_action(name, st) ==
    IF name \in RegisteredActions /\ name \in {"overview", "prefs"}
    THEN open_window(name, st)
    ELSE st

\* on_activate: opens the overview when the application has no window
on_activate(st) ==
    IF st.windows = <<>> THEN activate_action("overview", st) ELSE st

(***************************************************************************)
(* __main__: the dispatch on the action given on the command line          *)
(***************************************************************************)
WindowActions == {"about", "overview", "prefs"}
ClientActions == {"stop", "current"}
UnknownActions == {"frobnicate"}

\* the window each launching action stands for (HamsterCli.overview, about,
\* prefs and add name them)
LaunchedWindow(a) ==
    CASE a = "overview" -> "overview"
      [] a = "about" -> "about"
      [] a = "prefs" -> "prefs"
      [] a = "add" -> "edit"

InitAppVars ==
    /\ overview_controller = None
    /\ prefs_controller = None
    /\ windows = <<>>
    /\ created = [Overview |-> 0, PreferencesEditor |-> 0]
    /\ presented = None
    /\ inbox = <<>>
    /\ invoked = None
    /\ outcome = "none"
    /\ presented_since = {}
    /\ last_event = [type |-> "init", name |-> "", reused |-> FALSE, added |-> FALSE]

IdleApp ==
    /\ overview_controller = None
    /\ prefs_controller = None
    /\ windows = <<>>
    /\ created = [Overview |-> 0, PreferencesEditor |-> 0]
    /\ presented = None
    /\ inbox = <<>>
    /\ invoked = None
    /\ outcome = "idle"
    /\ presented_since = {}
    /\ last_event = [type |-> "idle", name |-> "", reused |-> FALSE, added |-> FALSE]

ServerUnchanged ==
    UNCHANGED <<overview_controller, prefs_controller, windows, created, presented>>

\* lines 447-453: register, activate_action(action), run: the action and
\* then the activation reach the primary instance
MainWindowAction ==
    /\ Len(inbox) + 2 <= MaxInbox
    /\ \E a \in WindowActions :
          /\ inbox' = inbox \o <<[type |-> "action", name |-> a],
                                 [type |-> "activate", name |-> ""]>>
          /\ invoked' = Some(a)
          /\ last_event' = [type |-> "main", name |-> a, reused |-> FALSE, added |-> FALSE]
    /\ outcome' = "run"
    /\ presented_since' = {}
    /\ ServerUnchanged
    /\ UNCHANGED <<wrapVars, now, rangeVars, listVars>>

\* lines 454-455: elif action == "add": pass
MainAdd ==
    /\ invoked' = Some("add")
    /\ outcome' = "pass"
    /\ presented_since' = {}
    /\ last_event' = [type |-> "main", name |-> "add", reused |-> FALSE, added |-> FALSE]
    /\ ServerUnchanged
    /\ UNCHANGED inbox
    /\ UNCHANGED <<wrapVars, now, rangeVars, listVars>>

\* lines 456-457: the method of HamsterCli of that name is called
MainClient ==
    /\ \E a \in ClientActions :
          /\ invoked' = Some(a)
          /\ last_event' = [type |-> "main", name |-> a, reused |-> FALSE, added |-> FALSE]
    /\ outcome' = "client"
    /\ presented_since' = {}
    /\ ServerUnchanged
    /\ UNCHANGED inbox
    /\ UNCHANGED <<wrapVars, now, rangeVars, listVars>>

\* lines 458-459: sys.exit(usage)
MainUsage ==
    /\ \E a \in UnknownActions :
          /\ invoked' = Some(a)
          /\ last_event' = [type |-> "main", name |-> a, reused |-> FALSE, added |-> FALSE]
    /\ outcome' = "usage"
    /\ presented_since' = {}
    /\ ServerUnchanged
    /\ UNCHANGED inbox
    /\ UNCHANGED <<wrapVars, now, rangeVars, listVars>>

\* the primary instance handles the oldest pending message
Handle ==
    /\ inbox # <<>>
    /\ LET msg == Head(inbox)
           st == IF msg.type = "action" THEN activate_action(msg.name, ServerState)
                 ELSE on_activate(ServerState)
       IN /\ overview_controller' = st.overview_controller
          /\ prefs_controller' = st.prefs_controller
          /\ windows' = st.windows
          /\ created' = st.created
          /\ presented' = st.presented
          /\ presented_since' = presented_since \cup st.shown
          /\ last_event' = [type |-> msg.type, name |-> msg.name,
                             reused |-> /\ msg.name = "overview"
                                        /\ overview_controller # None,
                             added |-> Len(st.windows) > Len(windows)]
    /\ inbox' = Tail(inbox)
    /\ UNCHANGED <<invoked, outcome>>
    /\ UNCHANGED <<wrapVars, now, rangeVars, listVars>>

\* the user closes a window: Gtk removes it from the application.  The
\* server is taken to live on when its last window is gone.
CloseWindow ==
    /\ \E k \in 1..Len(windows) :
          windows' = SubSeq(windows, 1, k - 1) \o SubSeq(windows, k + 1, Len(windows))
    /\ last_event' = [type |-> "close", name |-> "", reused |-> FALSE, added |-> FALSE]
    /\ UNCHANGED <<overview_controller, prefs_controller, created, presented,
                   inbox, invoked, outcome, presented_since>>
    /\ UNCHANGED <<wrapVars, now, rangeVars, listVars>>

(***************************************************************************)
(* Specifications                                                          *)
(***************************************************************************)
InitWrap == InitWrapVars /\ now = 0 /\ IdleRange /\ IdleList /\ IdleApp
NextWrap == WrapCall
SpecWrap == InitWrap /\ [][NextWrap]_vars

InitRange == IdleWrap /\ now \in ClockStarts /\ InitRangeVars /\ IdleList /\ IdleApp
NextRange == list \/ search \/ export
SpecRange == InitRange /\ [][NextRange]_vars

InitList == IdleWrap /\ now = Noon /\ IdleRange /\ InitListVars /\ IdleApp
NextList ==
    \/ ListFetch
    \/ ListWidth
    \/ ListHeader
    \/ ListAccumulate
    \/ ListRow
    \/ ListSummary
    \/ Tick
SpecList == InitList /\ [][NextList]_vars

InitApp == IdleWrap /\ now = 0 /\ IdleRange /\ IdleList /\ InitAppVars
NextApp ==
    \/ MainWindowAction
    \/ MainAdd
    \/ MainClient
    \/ MainUsage
    \/ Handle
    \/ CloseWindow
SpecApp == InitApp /\ [][NextApp]_vars

(***************************************************************************)
(* Claims about list, search and export                                    *)
(***************************************************************************)
\* C1: the pair (start_time, end_time) handed to the fact store satisfies
\* start_time <= end_time, whatever range expressions are given.
C1_StartNotAfterEnd ==
    \A i \in 1..Len(queries) : queries[i].start_time <= queries[i].end_time

\* C2: when the parser yields no end, the resolved end is 23:59:59 on the day
\* of the resolved start; the resolved start is the parsed start or, when
\* none was parsed, 00:00:00 of the day of the one reading of the clock; a
\* lone -N resolves to the parser's reference instant minus N minutes.
C2_RangeDefaulting ==
    (range_pc = "exit" /\ raised = None /\ parsed.end = None) =>
        LET q == queries[Len(queries)]
            ra == RangeArgs(cmd, args)
        IN /\ Len(queries) = 1
           /\ date(q.end_time) = date(q.start_time)
           /\ q.end_time % SecondsPerDay = 86399
           /\ parsed.start # None => q.start_time = parsed.start[1]
           /\ parsed.start = None =>
                 /\ today_read # None
                 /\ q.start_time % SecondsPerDay = 0
                 /\ date(q.start_time) = date(today_read[1])
           /\ (Len(ra) = 1 /\ ra[1].kind = "rel") =>
                 q.start_time = parse_read - ra[1].min * 60

\* empty input resolved while the clock passes midnight
C2_Witness ==
    /\ range_pc = "exit"
    /\ raised = None
    /\ RangeArgs(cmd, args) = <<>>
    /\ today_read # None
    /\ date(parse_read) < date(today_read[1])
    /\ Len(queries) = 1

\* a lone -N that reaches back into the previous day
C2_RelWitness ==
    /\ range_pc = "exit"
    /\ raised = None
    /\ Len(RangeArgs(cmd, args)) = 1
    /\ RangeArgs(cmd, args)[1].kind = "rel"
    /\ Len(queries) = 1
    /\ date(queries[1].start_time) < date(parse_read)

RECURSIVE SumOver(_, _)
SumOver(f, S) ==
    IF S = {} THEN 0
    ELSE LET k == CHOOSE x \in S : TRUE IN f[k] + SumOver(f, S \ {k})

\* the label a fact is summarised under
LabelOf(fact) ==
    IF fact.category = <<>> THEN <<"U", "n", "s", "o", "r", "t", "e", "d">>
    ELSE fact.category

WithLabel(c) == {k \in 1..Len(facts) : LabelOf(facts[k]) = c}

\* the position of the first fact summarised under c
FirstSeen(c) == CHOOSE k \in WithLabel(c) : \A j \in WithLabel(c) : k <= j

\* C6: the category summaries are in descending order of accumulated
\* duration, equal durations in the order the categories were first met
\* among the facts; an empty category is accumulated under "Unsorted"; the
\* Total is the sum of the category totals.
C6_SummaryOrder ==
    list_pc = "done" =>
        /\ \A i, j \in 1..Len(cats) :
              i < j =>
                /\ cats[i].duration >= cats[j].duration
                /\ cats[i].duration = cats[j].duration =>
                      FirstSeen(cats[i].cat) < FirstSeen(cats[j].cat)
        /\ {cats[i].cat : i \in 1..Len(cats)} = {LabelOf(facts[k]) : k \in 1..Len(facts)}
        /\ \A i \in 1..Len(cats) :
              cats[i].duration =
                  SumOver([k \in 1..Len(facts) |-> rows[k].delta], WithLabel(cats[i].cat))
        /\ total_duration = SumOver([i \in 1..Len(cats) |-> cats[i].duration], 1..Len(cats))
        /\ out[Len(out) - 1] =
              <<"T", "o", "t", "a", "l", ":", " ", " ">> \o format_duration(total_duration)

\* a report with three categories, two of them of equal duration, one of
\* them the facts without category
C6_Witness ==
    /\ list_pc = "done"
    /\ Len(cats) = 3
    /\ \E i \in 1..2 : cats[i].duration = cats[i + 1].duration
    /\ \E k \in 1..Len(facts) : facts[k].category = <<>>

\* C7: each column's width is the maximum of its header label's length and
\* the length of its formatted field over every data row of the report.
C7_WidthsAreMaxima ==
    list_pc = "done" =>
        \A c \in Columns :
            /\ widths[c] >= Len(headers[c])
            /\ \A k \in 1..Len(rows) : widths[c] >= Len(rows[k].pretty[c])
            /\ \/ widths[c] = Len(headers[c])
               \/ \E k \in 1..Len(rows) : widths[c] = Len(rows[k].pretty[c])

DigitValue(c) == CHOOSE v \in 0..9 : DigitChars[v + 1] = c

RECURSIVE ParseNat(_)
ParseNat(s) ==
    IF s = <<>> THEN 0
    ELSE 10 * ParseNat(SubSeq(s, 1, Len(s) - 1)) + DigitValue(s[Len(s)])

\* the seconds a printed duration "<hours>h<mm>" stands for
PrintedSeconds(text) ==
    LET h == CHOOSE k \in 1..Len(text) : text[k] = "h"
    IN ParseNat(SubSeq(text, 1, h - 1)) * 3600
       + ParseNat(SubSeq(text, h + 1, Len(text))) * 60

\* C9: the duration printed in a fact's row is the one measured for the
\* duration column's width and the one added to the fact's category, so the
\* Total is the sum of the durations printed in the rows.
C9_OneDurationPerFact ==
    list_pc = "done" =>
        /\ \A k \in 1..Len(rows) :
              /\ rows[k].pretty.duration = rows[k].width_duration
              /\ rows[k].pretty.duration = format_duration(rows[k].delta)
        /\ total_duration =
              SumOver([k \in 1..Len(rows) |-> PrintedSeconds(rows[k].pretty.duration)],
                      1..Len(rows))

(***************************************************************************)
(* Claims about the window server and the dispatch                         *)
(***************************************************************************)
\* C8: once the program was invoked with overview, prefs, add or about and
\* everything the invocation sent has been handled, the window of that
\* action has been opened and presented.
C8_WindowLaunched ==
    (/\ invoked # None
     /\ invoked[1] \in {"overview", "prefs", "add", "about"}
     /\ inbox = <<>>) =>
        LaunchedWindow(invoked[1]) \in presented_since

NoDuplicates(s) == \A i, j \in 1..Len(s) : i # j => s[i] # s[j]

\* C10: at most one Overview and one PreferencesEditor controller are ever
\* created, no window is among the application's windows twice, and an
\* 'overview' or 'prefs' activation ends with the window of that controller
\* among the windows and presented.
C10_SingleControllers ==
    /\ created["Overview"] <= 1
    /\ created["PreferencesEditor"] <= 1
    /\ NoDuplicates(windows)
    /\ (last_event.type = "action" /\ last_event.name \in {"overview", "prefs"}) =>
          LET controller == IF last_event.name = "overview"
                            THEN overview_controller ELSE prefs_controller
          IN /\ controller # None
             /\ controller[1].class = (IF last_event.name = "overview"
                                        THEN "Overview" ELSE "PreferencesEditor")
             /\ presented = Some(WindowOf(controller[1]))
             /\ InWindows(WindowOf(controller[1]), windows)

\* the overview is activated again after its window was closed while the
\* preferences window stayed open: the controller is reused, its window
\* added anew
C10_Witness ==
    /\ last_event = [type |-> "action", name |-> "overview",
                     reused |-> TRUE, added |-> TRUE]
    /\ Len(windows) = 2
    /\ windows[1].of = "PreferencesEditor"
    /\ created["Overview"] = 1
    /\ created["PreferencesEditor"] = 1

(***************************************************************************)
(* Claims about word_wrap                                                  *)
(***************************************************************************)
HasSpace(s) == \E i \in 1..Len(s) : s[i] \in Whitespace

\* C4: every line returned by word_wrap(text, w) is shorter than w, unless
\* it is exactly one word of length >= w (emitted verbatim); no returned
\* line is empty.
C4_LineLengths ==
    wrap_pc = "return" =>
        \A i \in 1..Len(lines) :
            /\ lines[i] # <<>>
            /\ \/ Len(lines[i]) < max_len
               \/ /\ Len(split(lines[i])) = 1
                  /\ split(lines[i])[1] = lines[i]
                  /\ Len(lines[i]) >= max_len

\* a run that returns both an over-long single word and a multi-word line
C4_Witness ==
    /\ wrap_pc = "return"
    /\ \E i \in 1..Len(lines) : Len(lines[i]) >= max_len /\ max_len > 0
    /\ \E i \in 1..Len(lines) : HasSpace(lines[i])

\* C5: joining the returned lines with single spaces and splitting on
\* whitespace gives the word sequence of the text; a text without words
\* gives no lines.
C5_WordsPreserved ==
    wrap_pc = "return" =>
        /\ split(join(<<" ">>, lines)) = split(line)
        /\ (split(line) = <<>> => lines = <<>>)

\* a run whose text has repeated whitespace and wraps onto several lines
C5_Witness ==
    /\ wrap_pc = "return"
    /\ Len(lines) >= 2
    /\ Len(split(line)) >= 3
    /\ \E i \in 1..(Len(line) - 1) : line[i] \in Whitespace /\ line[i + 1] \in Whitespace

\* a text without words returns no lines
C5_EmptyWitness ==
    /\ wrap_pc = "return"
    /\ line # <<>>
    /\ split(line) = <<>>
====
